---- MODULE Spec2Model ----
(***************************************************************************)
(* A model of the Gemini service layer of iFitBot: generateWorkoutPlan     *)
(* (trainer assignment, AI request, result or placeholder) and             *)
(* generateAssessmentReport (AI request, JSON.parse, report or fallback).  *)
(* The repository holds two versions of the service module,                *)
(* services/geminiService.ts and the module kept as unnamed/part_000; a    *)
(* call runs one of them (call.svc).  The AI service is the environment:   *)
(* it rejects the request or resolves it with a response text.             *)
(***************************************************************************)
EXTENDS Integers, Sequences, FiniteSets, TLC

VARIABLES
    pc,       \* "idle" | "awaiting" | "returned" | "thrown": the position of the call
    call,     \* the function called, the module version and its arguments
    locals,   \* the locals the call holds across its await
    sent,     \* requests this call has sent to the AI service
    response, \* what the AI service answered the request with, once it has
    result,   \* the value the promise resolved with, or the error it rejected with
    calc,     \* the quantities the report's arithmetic gives for one set of inputs
    reports,  \* the generateAssessmentReport calls in flight side by side
    page,     \* AssessmentPage: the object the quiz handed over and what became of it
    studio,   \* AIStudioPage: its React state and the handlers awaiting the service
    roadmap   \* what TransformationRoadmap renders for the report it was given

\* The state of the call in flight, and the rest.
callVars == <<pc, call, locals, sent, response, result>>
nonCall == <<calc, reports, page, studio, roadmap>>
vars == <<pc, call, locals, sent, response, result, calc, reports, page, studio, roadmap>>

----------------------------------------------------------------------------
(* JavaScript values *)

NULL == [null |-> TRUE]
UNDEFINED == [undefined |-> TRUE]
UndefinedString == "undefined"
\* A JSON array and a JSON string, where a field may hold either or null.
Arr(s) == [array |-> s]
Str(s) == [string |-> s]

\* The two versions of the service module.
ServicesTs == "services/geminiService.ts"
Part000 == "unnamed/part_000"
Svcs == {ServicesTs, Part000}

----------------------------------------------------------------------------
(* Bounds *)

\* Math.random() returns k / RandGrain for k in 0 .. RandGrain-1: a value of [0,1).
RandGrain == 33

----------------------------------------------------------------------------
(* Strings, data URLs and the parts of a request *)

\* A string is held as the sequence of the pieces it is concatenated from.
Text(parts) == [text |-> parts]

\* A data URL, by its pieces.
DataUrl(mimeType, data) == <<"data:", mimeType, ";base64,", data>>

\* base64Image.match(/^data:(.+);base64,(.+)$/)
MatchDataUrl(s) ==
    IF /\ Len(s) = 4
       /\ s[1] = "data:" /\ s[2] # "" /\ s[3] = ";base64," /\ s[4] # ""
    THEN [matched |-> TRUE, mimeType |-> s[2], data |-> s[4]]
    ELSE [matched |-> FALSE]

\* A part of a request or of a response.
InlinePart(mimeType, data) == [inlineData |-> [mimeType |-> mimeType, data |-> data]]
TextPart(t) == [text |-> t]

\* The image strings a report or plan is asked for: a data URL, a bare base64 string,
\* the empty string.
BodyImages ==
    {Text(DataUrl("image/jpeg", "/9j/4AAQ")), Text(<<"/9j/4AAQ">>), Text(<< >>)}

\* Faulty variant: a string that is no data URL is sent as it is.
ImagePartsUnchecked(image) ==
    IF image = NULL \/ image = UNDEFINED \/ image = Text(<< >>) THEN << >>
    ELSE IF MatchDataUrl(image.text).matched
         THEN <<InlinePart(MatchDataUrl(image.text).mimeType, MatchDataUrl(image.text).data)>>
         ELSE <<InlinePart("image/jpeg", image.text[1])>>

\* if (image) { match = image.match(...); if (match) requestParts.push({inlineData}) }
ImageParts(image) ==
    IF image = NULL \/ image = UNDEFINED \/ image = Text(<< >>) THEN << >>
    ELSE IF MatchDataUrl(image.text).matched
         THEN <<InlinePart(MatchDataUrl(image.text).mimeType, MatchDataUrl(image.text).data)>>
         ELSE << >>

\* requestParts = [{ text: promptText }], then the image part if there is one.
RequestParts(image) == <<TextPart("promptText")>> \o ImageParts(image)

----------------------------------------------------------------------------
(* QuizData *)

Genders == {"male", "female"}
Goals == {"lose_weight", "gain_muscle", "get_shredded"}
\* A goal string outside the QuizData type, as a caller may still pass one.
UnknownGoal == "maintain"

\* The numbers and the activity level of a filled-in quiz.
ValidQuizNumbers ==
    [ currentWeight |-> 100, height |-> 175, age |-> 30, targetWeight |-> 80,
      targetPeriodWeeks |-> 8, dailyActivity |-> "moderately_active" ]

\* Numbers a caller can pass all the same: the fields are plain numbers and strings
\* at run time.
InvalidQuizNumbers ==
    { [ValidQuizNumbers EXCEPT !.currentWeight = 0],
      [ValidQuizNumbers EXCEPT !.height = 0],
      [ValidQuizNumbers EXCEPT !.age = 0],
      [ValidQuizNumbers EXCEPT !.targetPeriodWeeks = 0],
      [ValidQuizNumbers EXCEPT !.dailyActivity = "bedridden"] }

QuizOf(gender, goal, n) ==
    [ gender |-> gender, goal |-> goal, currentWeight |-> n.currentWeight,
      height |-> n.height, age |-> n.age, targetWeight |-> n.targetWeight,
      targetPeriodWeeks |-> n.targetPeriodWeeks, dailyActivity |-> n.dailyActivity ]

QuizDatas ==
    { QuizOf(gender, goal, ValidQuizNumbers) :
          gender \in Genders, goal \in Goals \cup {UnknownGoal} }
    \cup { QuizOf("male", "lose_weight", n) : n \in InvalidQuizNumbers }
    \cup { QuizOf("female", "lose_weight", ValidQuizNumbers) @@ [bodyImage |-> image] :
               image \in BodyImages }

----------------------------------------------------------------------------
(* Sequence helpers *)

RECURSIVE Repeat(_, _)
Repeat(x, n) == IF n = 0 THEN << >> ELSE <<x>> \o Repeat(x, n - 1)

Includes(s, x) == \E i \in DOMAIN s : s[i] = x

\* Faulty variant: Math.ceil in place of Math.floor.
RandomIndexCeil(k, len) == (k * len + RandGrain - 1) \div RandGrain

\* Math.floor(Math.random() * len) for Math.random() = k / RandGrain.
RandomIndex(k, len) == (k * len) \div RandGrain

----------------------------------------------------------------------------
(* generateWorkoutPlan: trainer assignment *)

allTrainers ==
    << [name |-> "Athul",     specialties |-> <<"Weight Loss", "Lean Body">>],
       [name |-> "Athithiya", specialties |-> <<"Lean Body", "Bodybuilding">>],
       [name |-> "Saieel",    specialties |-> <<"Weight Loss", "Bodybuilding">>] >>

\* goalToSpecialtyMap[userGoal]: undefined for a key the map does not hold.
goalToSpecialtyMap(userGoal) ==
    CASE userGoal = "lose_weight"  -> "Weight Loss"
      [] userGoal = "gain_muscle"  -> "Bodybuilding"
      [] userGoal = "get_shredded" -> "Lean Body"
      [] OTHER                     -> UndefinedString

\* quizData?.goal
userGoalOf(quizData) == IF quizData = NULL THEN UndefinedString ELSE quizData.goal

\* A string as a condition: undefined and "" are falsy.
Truthy(s) == s # UndefinedString /\ s # "null" /\ s # ""

specialistWeight == 5
generalistWeight == 1

\* Faulty variant: the weights of specialist and non-specialist exchanged.
TrainerWeightInverted(trainer, targetSpecialty) ==
    IF Includes(trainer.specialties, targetSpecialty)
    THEN generalistWeight ELSE specialistWeight

TrainerWeight(trainer, targetSpecialty) ==
    IF Includes(trainer.specialties, targetSpecialty)
    THEN specialistWeight ELSE generalistWeight

\* allTrainers.forEach(... weightedPool.push(trainer.name) ...), in order.
RECURSIVE WeightedPoolFrom(_, _)
WeightedPoolFrom(i, targetSpecialty) ==
    IF i > Len(allTrainers) THEN << >>
    ELSE Repeat(allTrainers[i].name, TrainerWeight(allTrainers[i], targetSpecialty))
         \o WeightedPoolFrom(i + 1, targetSpecialty)

\* allTrainers.map(t => t.name)
TrainerNameList == [i \in DOMAIN allTrainers |-> allTrainers[i].name]

\* targetSpecialty = userGoal ? goalToSpecialtyMap[userGoal] : null (part_000);
\* services/geminiService.ts computes no target specialty.
TargetSpecialtyOf(svc, quizData) ==
    IF svc = Part000 /\ Truthy(userGoalOf(quizData))
    THEN goalToSpecialtyMap(userGoalOf(quizData))
    ELSE "null"

\* The array the trainer is drawn from.
TrainerPool(svc, quizData) ==
    IF Truthy(TargetSpecialtyOf(svc, quizData))
    THEN WeightedPoolFrom(1, TargetSpecialtyOf(svc, quizData))
    ELSE TrainerNameList

\* pool[Math.floor(Math.random() * pool.length)] (TLA+ sequences start at 1).
\* An index outside the array reads undefined.
DrawFrom(pool, k) ==
    IF RandomIndex(k, Len(pool)) + 1 \in DOMAIN pool
    THEN pool[RandomIndex(k, Len(pool)) + 1]
    ELSE UndefinedString

----------------------------------------------------------------------------
(* The AI service's answers *)

\* A response text: a JSON document (by the value it parses to), a text that is
\* no JSON, or no text at all (response.text undefined).
JsonText(v) == [kind |-> "json", value |-> v]
MalformedText == [kind |-> "malformed"]
NoText == [kind |-> "undefined"]

\* JSON.parse(text): the value, or a SyntaxError.
JSONParse(text) ==
    IF text.kind = "json"
    THEN [ok |-> TRUE, value |-> text.value]
    ELSE [ok |-> FALSE, error |-> [name |-> "SyntaxError", message |-> "Unexpected token"]]

\* What a rejected AI request is rejected with.
AIErrors == { [name |-> "Error", message |-> "503 Service Unavailable"],
              [name |-> "SyntaxError", message |-> "Unexpected end of JSON input"] }

TypeErrorOnNull == [name |-> "TypeError", message |-> "Cannot read properties of null"]

\* No call in flight.
NoCall == [fn |-> "none"]
NoLocals == [none |-> TRUE]
NoResult == [none |-> TRUE]

Pending == [kind |-> "pending"]
Rejected(err) == [kind |-> "rejected", error |-> err]
Resolved(text) == [kind |-> "resolved", text |-> text]

\* Reading property key of a parsed JSON object.
Prop(obj, key) == IF key \in DOMAIN obj THEN obj[key] ELSE UNDEFINED

----------------------------------------------------------------------------
(* generateWorkoutPlan *)

SampleDraft == [program_weeks |-> 8, weekly_days |-> 4]

PlanJsonValues ==
    { [workout_guide_draft |-> SampleDraft, presentation_markdown |-> "# Your plan"],
      [presentation_markdown |-> "# Your plan"],
      << >>,
      NULL }

PlanResponseTexts == {JsonText(v) : v \in PlanJsonValues} \cup {MalformedText, NoText}

placeholderExtractedData ==
    [ recommended_calories_kcal |-> NULL, current_burn_kcal |-> NULL,
      current_intake_kcal |-> NULL, calorie_gap_kcal |-> NULL,
      protein_target_g |-> NULL, water_target_l |-> NULL,
      predicted_loss_kg_per_week |-> NULL, weeks_to_lose_10kg |-> NULL,
      parse_notes |-> "AI failed to generate a plan." ]

\* The value of the catch block of generateWorkoutPlan (part_000).
PlanPlaceholder ==
    [ needs_assessment |-> FALSE,
      cta_copy |-> NULL,
      assigned_trainer |-> [name |-> "Athul"],
      extracted_from_report |-> placeholderExtractedData,
      workout_guide_draft |-> NULL,
      presentation_markdown |-> "# Generation Error" ]

\* The value returned after a parsed response (signature_line, which only repeats
\* userName, is left out).
PlanSuccess(svc, assignedTrainerName, responseJson) ==
    [ needs_assessment |-> FALSE,
      cta_copy |-> NULL,
      assigned_trainer |-> [name |-> assignedTrainerName],
      extracted_from_report |-> NULL,
      workout_guide_draft |-> Prop(responseJson, "workout_guide_draft"),
      presentation_markdown |-> Prop(responseJson, "presentation_markdown"),
      trainer_checklist |->
          IF svc = Part000
          THEN << "Confirm the plan aligns with client goals.",
                  "Check exercise selection for safety and effectiveness.",
                  "Verify progression logic is appropriate for the client's fitness level." >>
          ELSE <<"Safety check", "Progression check">> ]

\* The reportImage arguments tried with a quizData: null with every quizData, the
\* image strings with the quizData null.
ReportImagesFor(quizData) == IF quizData = NULL THEN {NULL} \cup BodyImages ELSE {NULL}

\* generateWorkoutPlan up to its await: the trainer is assigned and the request sent.
CallGenerateWorkoutPlan(svc, reportImage, quizData, k) ==
    /\ pc = "idle"
    /\ pc' = "awaiting"
    /\ call' = [fn |-> "generateWorkoutPlan", svc |-> svc, reportImage |-> reportImage,
                quizData |-> quizData, random |-> k]
    /\ locals' = [ targetSpecialty |-> TargetSpecialtyOf(svc, quizData),
                   pool |-> TrainerPool(svc, quizData),
                   assignedTrainerName |-> DrawFrom(TrainerPool(svc, quizData), k),
                   requestParts |-> RequestParts(reportImage) ]
    /\ sent' = sent + 1
    /\ response' = Pending
    /\ UNCHANGED result
    /\ UNCHANGED nonCall

\* An error raised inside generateWorkoutPlan: part_000 catches it and returns the
\* placeholder; services/geminiService.ts has no try and the promise rejects.
PlanFails(err) ==
    /\ IF call.svc = Part000
       THEN pc' = "returned" /\ result' = PlanPlaceholder
       ELSE pc' = "thrown" /\ result' = err
    /\ sent' = sent

\* The AI request of generateWorkoutPlan is rejected.
PlanAIRejects(err) ==
    /\ pc = "awaiting" /\ call.fn = "generateWorkoutPlan"
    /\ response' = Rejected(err)
    /\ PlanFails(err)
    /\ UNCHANGED <<call, locals>>
    /\ UNCHANGED nonCall

\* The AI request of generateWorkoutPlan resolves with a response text.
PlanAIResolves(text) ==
    /\ pc = "awaiting" /\ call.fn = "generateWorkoutPlan"
    /\ response' = Resolved(text)
    /\ LET parsed == JSONParse(text) IN
         IF ~parsed.ok THEN PlanFails(parsed.error)
         ELSE IF parsed.value = NULL THEN PlanFails(TypeErrorOnNull)
         ELSE /\ pc' = "returned"
              /\ result' = PlanSuccess(call.svc, locals.assignedTrainerName, parsed.value)
              /\ sent' = sent
    /\ UNCHANGED <<call, locals>>
    /\ UNCHANGED nonCall

----------------------------------------------------------------------------
(* generateAssessmentReport *)

\* reportSchema.required, likewise the fields ReportData declares.
RequiredGroups ==
    {"numbers", "timeline", "nutrition_targets", "body_comp", "flags", "methodology",
     "report_markdown"}

\* The values the AI's report is drawn from; the service checks none of them.
DeficitSamples == {500, 1000, 1001}
IntakeSamples == {1199, 1200, 1499, 1500}
\* adjusted_timeline_weeks: << >> when the key is absent, <<n>> when it holds n.
AdjustedSamples == {<< >>, <<0>>, <<12>>}
\* carbs_g_range and fats_g_range: the schema asks for an array of numbers and
\* fixes neither its length nor its order.
CarbsSamples == {Arr(<<180, 240>>), Arr(<<240, 180>>), Arr(<<180>>), Str("TBD"), NULL}
FatsSamples == {Arr(<<50, 70>>), Arr(<<50, 60, 70>>)}
GroupSamples ==
    {RequiredGroups, {}} \cup {RequiredGroups \ {g} : g \in RequiredGroups}

AINumbers(deficit, intake) ==
    [ current_maintenance_calories |-> 2400, daily_calorie_deficit_needed |-> deficit,
      target_intake_kcal |-> intake, target_burn_per_day_activity |-> 300 ]

AITimeline(realistic, adjusted) ==
    LET base == [ excess_fat_kg |-> 10, weeks_to_goal |-> 12,
                  projected_loss_per_week_kg |-> 1, is_timeline_realistic |-> realistic ]
    IN  IF adjusted = << >> THEN base
        ELSE base @@ ("adjusted_timeline_weeks" :> adjusted[1])

AIGroup(g, deficit, intake, realistic, adjusted, carbs, fats) ==
    CASE g = "numbers" -> AINumbers(deficit, intake)
      [] g = "timeline" -> AITimeline(realistic, adjusted)
      [] g = "nutrition_targets" ->
            [ recommended_calories_kcal |-> intake, protein_g |-> 140, water_l |-> 3,
              carbs_g_range |-> carbs, fats_g_range |-> fats ]
      [] g = "body_comp" ->
            [ estimated_bf_percent |-> 24, bf_ideal_band |-> <<12, 20>>,
              bf_status |-> "above", estimated_tbw_percent |-> 55,
              tbw_typical_band |-> <<50, 65>>, tbw_status |-> "within" ]
      [] g = "flags" -> << >>
      [] g = "methodology" -> <<"Mifflin-St Jeor">>
      [] g = "report_markdown" -> "# Your report"

ReportJson(groups, deficit, intake, realistic, adjusted, carbs, fats) ==
    [g \in groups |-> AIGroup(g, deficit, intake, realistic, adjusted, carbs, fats)]

\* The objects a JSON response of the AI may parse to: all groups with any numbers,
\* all groups with any ranges, any subset of the groups; and the JSON value null.
ReportJsonValues ==
    { ReportJson(RequiredGroups, deficit, intake, realistic, adjusted,
                 Arr(<<180, 240>>), Arr(<<50, 70>>)) :
        deficit \in DeficitSamples, intake \in IntakeSamples,
        realistic \in BOOLEAN, adjusted \in AdjustedSamples }
    \cup { ReportJson(RequiredGroups, 500, 1500, TRUE, << >>, carbs, fats) :
        carbs \in CarbsSamples, fats \in FatsSamples }
    \cup { ReportJson(groups, 500, 1500, TRUE, << >>, Arr(<<180, 240>>), Arr(<<50, 70>>)) :
        groups \in GroupSamples }
    \cup {NULL}

ReportResponseTexts == {JsonText(v) : v \in ReportJsonValues} \cup {MalformedText, NoText}

\* Faulty variant: a fallback report that leaves out methodology and claims an unrealistic
\* timeline.
FallbackReportPartial ==
    [ report_markdown |-> "# Failed to generate report. Please try again later.",
      numbers |-> [ current_maintenance_calories |-> 0, daily_calorie_deficit_needed |-> 0,
                    target_intake_kcal |-> 0, target_burn_per_day_activity |-> 0 ],
      timeline |-> [ excess_fat_kg |-> 0, weeks_to_goal |-> 0,
                     projected_loss_per_week_kg |-> 0, is_timeline_realistic |-> FALSE ],
      nutrition_targets |-> [ recommended_calories_kcal |-> 0, protein_g |-> 0,
                              water_l |-> 0, carbs_g_range |-> NULL,
                              fats_g_range |-> NULL ],
      body_comp |-> [ estimated_bf_percent |-> 0, bf_ideal_band |-> <<0, 0>>,
                      bf_status |-> "within", estimated_tbw_percent |-> 0,
                      tbw_typical_band |-> <<0, 0>>, tbw_status |-> "within",
                      visual_analysis_notes |-> "Analysis failed." ],
      flags |-> << >> ]

\* The report the catch block of generateAssessmentReport returns (part_000).
FallbackReport ==
    [ report_markdown |-> "# Failed to generate report. Please try again later.",
      numbers |-> [ current_maintenance_calories |-> 0, daily_calorie_deficit_needed |-> 0,
                    target_intake_kcal |-> 0, target_burn_per_day_activity |-> 0 ],
      timeline |-> [ excess_fat_kg |-> 0, weeks_to_goal |-> 0,
                     projected_loss_per_week_kg |-> 0, is_timeline_realistic |-> TRUE ],
      nutrition_targets |-> [ recommended_calories_kcal |-> 0, protein_g |-> 0,
                              water_l |-> 0, carbs_g_range |-> NULL,
                              fats_g_range |-> NULL ],
      body_comp |-> [ estimated_bf_percent |-> 0, bf_ideal_band |-> <<0, 0>>,
                      bf_status |-> "within", estimated_tbw_percent |-> 0,
                      tbw_typical_band |-> <<0, 0>>, tbw_status |-> "within",
                      visual_analysis_notes |-> "Analysis failed." ],
      flags |-> << >>,
      methodology |-> << >> ]

AIJsonParseError ==
    [ name |-> "Error",
      message |-> "AI_JSON_PARSE_ERROR: Failed to parse the structured report from the AI." ]

\* Faulty variant: the catch block without its instanceof SyntaxError test.
ReportCatchNoSyntaxTest(svc, err) ==
    IF svc = Part000
    THEN [thrown |-> FALSE, value |-> FallbackReport]
    ELSE [thrown |-> TRUE, value |-> err]

\* The catch block of generateAssessmentReport: [thrown, value].  part_000 throws a
\* new Error for a SyntaxError and returns the fallback report for any other error;
\* services/geminiService.ts rethrows whatever it caught.
ReportCatch(svc, err) ==
    IF svc = Part000
    THEN IF err.name = "SyntaxError"
         THEN [thrown |-> TRUE, value |-> AIJsonParseError]
         ELSE [thrown |-> FALSE, value |-> FallbackReport]
    ELSE [thrown |-> TRUE, value |-> err]

\* generateAssessmentReport up to its await: the prompt is built and the request sent.
CallGenerateAssessmentReport(svc, quizData) ==
    /\ pc = "idle"
    /\ pc' = "awaiting"
    /\ call' = [fn |-> "generateAssessmentReport", svc |-> svc, quizData |-> quizData]
    /\ locals' = [requestParts |-> RequestParts(Prop(quizData, "bodyImage"))]
    /\ sent' = sent + 1
    /\ response' = Pending
    /\ UNCHANGED result
    /\ UNCHANGED nonCall

\* Faulty variant: the catch block sends the request once more.
ReportFailsRetry(err) ==
    /\ pc' = "awaiting"
    /\ result' = NoResult
    /\ sent' = sent + 1

\* An error raised inside the try of generateAssessmentReport: the catch block
\* settles the call; it sends nothing.
ReportFails(err) ==
    LET caught == ReportCatch(call.svc, err) IN
    /\ pc' = IF caught.thrown THEN "thrown" ELSE "returned"
    /\ result' = caught.value
    /\ sent' = sent

\* The AI request of generateAssessmentReport is rejected.
ReportAIRejects(err) ==
    /\ pc = "awaiting" /\ call.fn = "generateAssessmentReport"
    /\ response' = Rejected(err)
    /\ ReportFails(err)
    /\ UNCHANGED <<call, locals>>
    /\ UNCHANGED nonCall

\* The AI request resolves: reportData = JSON.parse(response.text); return reportData.
ReportAIResolves(text) ==
    /\ pc = "awaiting" /\ call.fn = "generateAssessmentReport"
    /\ response' = Resolved(text)
    /\ LET parsed == JSONParse(text) IN
         IF ~parsed.ok THEN ReportFails(parsed.error)
         ELSE pc' = "returned" /\ result' = parsed.value /\ sent' = sent
    /\ UNCHANGED <<call, locals>>
    /\ UNCHANGED nonCall

----------------------------------------------------------------------------
(* generateAutoTrainerNote *)

\* A response text that is not JSON, by its pieces.
PlainText(parts) == [kind |-> "plain", parts |-> parts]

Whitespace == {" ", "\n", ""}

RECURSIVE TrimStart(_)
TrimStart(parts) ==
    IF parts # << >> /\ Head(parts) \in Whitespace THEN TrimStart(Tail(parts)) ELSE parts

RECURSIVE TrimEnd(_)
TrimEnd(parts) ==
    IF parts # << >> /\ parts[Len(parts)] \in Whitespace
    THEN TrimEnd(SubSeq(parts, 1, Len(parts) - 1))
    ELSE parts

\* String.prototype.trim
Trim(parts) == TrimEnd(TrimStart(parts))

UserNames == {"Asha", ""}
NoteTrainerNames == {"Athul", "Saieel"}

NoteResponseTexts ==
    { PlainText(<<"\n", "Great start, Asha!", " ">>), PlainText(<<"Great start, Asha!">>),
      PlainText(<<" ">>), NoText }

\* Faulty variant: the fallback note is not signed.
NoteFallbackUnsigned(svc, userName, trainerName) ==
    IF svc = Part000
    THEN Text(<< "Hi ", userName,
                 ",\n\nI've personally reviewed your AI-based assessment and tailored plan. I recommend focusing extra on consistency this week. Let's crush it together\n\n" >>)
    ELSE Text(<<"Hi ", userName, ", ready to crush it?">>)

\* The template string of the catch block.
NoteFallback(svc, userName, trainerName) ==
    IF svc = Part000
    THEN Text(<< "Hi ", userName,
                 ",\n\nI've personally reviewed your AI-based assessment and tailored plan. I recommend focusing extra on consistency this week. Let's crush it together\n\n- ",
                 trainerName >>)
    ELSE Text(<<"Hi ", userName, ", ready to crush it? - ", trainerName>>)

\* generateAutoTrainerNote up to its await: the prompt is built and the request sent.
CallGenerateAutoTrainerNote(svc, userName, trainerName, quizData) ==
    /\ pc = "idle"
    /\ pc' = "awaiting"
    /\ call' = [fn |-> "generateAutoTrainerNote", svc |-> svc, userName |-> userName,
                trainerName |-> trainerName, quizData |-> quizData]
    /\ locals' = NoLocals
    /\ sent' = sent + 1
    /\ response' = Pending
    /\ UNCHANGED result
    /\ UNCHANGED nonCall

\* An error raised inside the try: the catch block returns the fallback note.
NoteFails ==
    /\ pc' = "returned"
    /\ result' = NoteFallback(call.svc, call.userName, call.trainerName)
    /\ sent' = sent

\* The AI request of generateAutoTrainerNote is rejected.
NoteAIRejects(err) ==
    /\ pc = "awaiting" /\ call.fn = "generateAutoTrainerNote"
    /\ response' = Rejected(err)
    /\ NoteFails
    /\ UNCHANGED <<call, locals>>
    /\ UNCHANGED nonCall

\* The AI request resolves: return response.text.trim(); with no text, trim is read
\* from undefined and the TypeError lands in the catch block.
NoteAIResolves(text) ==
    /\ pc = "awaiting" /\ call.fn = "generateAutoTrainerNote"
    /\ response' = Resolved(text)
    /\ IF text = NoText THEN NoteFails
       ELSE pc' = "returned" /\ result' = Text(Trim(text.parts)) /\ sent' = sent
    /\ UNCHANGED <<call, locals>>
    /\ UNCHANGED nonCall

----------------------------------------------------------------------------
(* getTrainerChatbotResponse and getCalorieCoachResponse *)

ChatFns == {"getTrainerChatbotResponse", "getCalorieCoachResponse"}

MaxHistory == 3

ChatMessages ==
    { [role |-> "user", text |-> "How many calories are in a banana?"],
      [role |-> "model", text |-> "About 105 kcal."],
      [role |-> "user", text |-> "And in two?"] }

\* The chatHistory arrays a caller passes, the empty one among them.
ChatHistories == UNION {[1 .. n -> ChatMessages] : n \in 0 .. MaxHistory}

\* chatHistory.map(msg => ({ role: msg.role, parts: [{ text: msg.text }] }))
MapHistory(chatHistory) ==
    [i \in DOMAIN chatHistory |->
        [role |-> chatHistory[i].role, parts |-> <<[text |-> chatHistory[i].text]>>]]

\* Faulty variant: the first element is taken (shift) in place of the last.
Shift(history) ==
    IF history = << >> THEN [rest |-> << >>, popped |-> UNDEFINED]
    ELSE [rest |-> Tail(history), popped |-> Head(history)]

\* history.pop(): the array without its last element, and that element (undefined
\* of an empty array).
Pop(history) ==
    IF history = << >> THEN [rest |-> << >>, popped |-> UNDEFINED]
    ELSE [rest |-> SubSeq(history, 1, Len(history) - 1), popped |-> history[Len(history)]]

\* The caller's array after the call: map built a new array and pop shortened that
\* one; chatHistory itself is only read.
CallerArrayAfter(chatHistory) == chatHistory

\* The text returned for an empty chatHistory.
NoMessageText(svc, fn) ==
    IF svc = Part000
    THEN IF fn = "getTrainerChatbotResponse"
         THEN Text(<<"I'm sorry, I didn't receive a question.">>)
         ELSE Text(<<"Sorry, I didn't get that. What food are you curious about?">>)
    ELSE IF fn = "getTrainerChatbotResponse"
         THEN Text(<<"Error: No message.">>)
         ELSE Text(<<"Sorry, I didn't get that.">>)

\* The text of the catch blocks of part_000.
ApologyText(fn) ==
    IF fn = "getTrainerChatbotResponse"
    THEN Text(<<"I apologize, but I encountered an error and cannot respond at this moment.">>)
    ELSE Text(<<"I apologize, but I couldn't process that request right now. Please try again.">>)

\* An error raised after the pop: part_000 catches it and returns the apology;
\* services/geminiService.ts has no try and the promise rejects.
ChatCatch(svc, fn, err) ==
    IF svc = Part000
    THEN [thrown |-> FALSE, value |-> ApologyText(fn)]
    ELSE [thrown |-> TRUE, value |-> err]

ChatCreateError == [name |-> "Error", message |-> "Invalid chat history"]

ChatResponseTexts == {PlainText(<<"About 210 kcal.">>), PlainText(<< >>), NoText}

\* A chat function up to its await: the history is mapped, its last message popped;
\* an empty history returns at once; otherwise the chat is created, which may throw,
\* and the message sent.
CallChat(fn, svc, chatHistory, createThrows) ==
    LET popped == Pop(MapHistory(chatHistory))
        caught == ChatCatch(svc, fn, ChatCreateError)
    IN
    /\ pc = "idle"
    /\ call' = [fn |-> fn, svc |-> svc, chatHistory |-> chatHistory,
                callerArray |-> CallerArrayAfter(chatHistory)]
    /\ response' = Pending
    /\ IF popped.popped = UNDEFINED
       THEN /\ pc' = "returned"
            /\ locals' = [history |-> popped.rest, created |-> FALSE]
            /\ result' = NoMessageText(svc, fn)
            /\ sent' = sent
       ELSE IF createThrows
       THEN /\ pc' = IF caught.thrown THEN "thrown" ELSE "returned"
            /\ locals' = [history |-> popped.rest, userPrompt |-> popped.popped,
                          created |-> FALSE]
            /\ result' = caught.value
            /\ sent' = sent
       ELSE /\ pc' = "awaiting"
            /\ locals' = [history |-> popped.rest, userPrompt |-> popped.popped,
                          created |-> TRUE, message |-> popped.popped.parts[1].text]
            /\ UNCHANGED result
            /\ sent' = sent + 1
    /\ UNCHANGED nonCall

InChatCall == call.fn \in ChatFns

\* chat.sendMessage is rejected.
ChatAIRejects(err) ==
    /\ pc = "awaiting" /\ InChatCall
    /\ response' = Rejected(err)
    /\ pc' = IF ChatCatch(call.svc, call.fn, err).thrown THEN "thrown" ELSE "returned"
    /\ result' = ChatCatch(call.svc, call.fn, err).value
    /\ UNCHANGED <<call, locals, sent>>
    /\ UNCHANGED nonCall

\* chat.sendMessage resolves: return response.text, undefined when there is none.
ChatAIResolves(text) ==
    /\ pc = "awaiting" /\ InChatCall
    /\ response' = Resolved(text)
    /\ pc' = "returned"
    /\ result' = IF text = NoText THEN UNDEFINED ELSE Text(text.parts)
    /\ UNCHANGED <<call, locals, sent>>
    /\ UNCHANGED nonCall

----------------------------------------------------------------------------
(* editUserImage and generateMotivationImage (services/geminiService.ts) *)

ImageStrings ==
    { DataUrl("image/png", "iVBORw0KGgo="), DataUrl("", "iVBORw0KGgo="),
      DataUrl("image/png", ""), <<"iVBORw0KGgo=">>, << >> }

ImagePrompts == {"Make the background a beach."}
AspectRatios == {"1:1", "16:9"}

\* The parts of the first candidate of a response.
NoCandidates == [candidates |-> UNDEFINED]
Candidate(parts) == [parts |-> parts]

ImageResponses ==
    { NoCandidates, Candidate(<< >>), Candidate(<<TextPart("Here you are.")>>),
      Candidate(<<TextPart("Here you are."), InlinePart("image/png", "AAAA")>>),
      Candidate(<<InlinePart("image/jpeg", "BBBB"), InlinePart("image/png", "AAAA")>>),
      Candidate(<<[inlineData |-> [data |-> "CCCC"]]>>) }

\* response.candidates?.[0]?.content?.parts || []
PartsOf(resp) == IF resp = NoCandidates THEN << >> ELSE resp.parts

InvalidImageData == [name |-> "Error", message |-> "Invalid image data"]
NoImageGenerated == [name |-> "Error", message |-> "No image generated."]

\* ${obj.key} in a template string: "undefined" for a key that is not there.
Interpolated(obj, key) == IF key \in DOMAIN obj THEN obj[key] ELSE UndefinedString

\* `data:${part.inlineData.mimeType};base64,${part.inlineData.data}`
PartDataUrl(part) ==
    Text(DataUrl(Interpolated(part.inlineData, "mimeType"),
                 Interpolated(part.inlineData, "data")))

\* Faulty variant: the loop goes on to the last part with inline data.
RECURSIVE LastImage(_)
LastImage(parts) ==
    IF parts = << >> THEN [thrown |-> TRUE, value |-> NoImageGenerated]
    ELSE IF "inlineData" \in DOMAIN parts[Len(parts)]
         THEN [thrown |-> FALSE, value |-> PartDataUrl(parts[Len(parts)])]
         ELSE LastImage(SubSeq(parts, 1, Len(parts) - 1))

\* for (const part of parts) if (part.inlineData) return the data URL; else throw.
RECURSIVE FirstImage(_)
FirstImage(parts) ==
    IF parts = << >> THEN [thrown |-> TRUE, value |-> NoImageGenerated]
    ELSE IF "inlineData" \in DOMAIN Head(parts)
         THEN [thrown |-> FALSE, value |-> PartDataUrl(Head(parts))]
         ELSE FirstImage(Tail(parts))

\* editUserImage: a string that is no data URL is refused before any request;
\* otherwise the request is sent.
CallEditUserImage(base64Image, prompt) ==
    /\ pc = "idle"
    /\ call' = [fn |-> "editUserImage", svc |-> ServicesTs,
                base64Image |-> base64Image, prompt |-> prompt]
    /\ locals' = MatchDataUrl(base64Image)
    /\ IF MatchDataUrl(base64Image).matched
       THEN pc' = "awaiting" /\ sent' = sent + 1 /\ UNCHANGED result
       ELSE pc' = "thrown" /\ sent' = sent /\ result' = InvalidImageData
    /\ response' = Pending
    /\ UNCHANGED nonCall

\* generateMotivationImage up to its await.
CallGenerateMotivationImage(prompt, aspectRatio) ==
    /\ pc = "idle"
    /\ pc' = "awaiting"
    /\ call' = [fn |-> "generateMotivationImage", svc |-> ServicesTs,
                prompt |-> prompt, aspectRatio |-> aspectRatio]
    /\ locals' = NoLocals
    /\ sent' = sent + 1
    /\ response' = Pending
    /\ UNCHANGED result
    /\ UNCHANGED nonCall

InImageCall == call.fn \in {"editUserImage", "generateMotivationImage"}

\* The AI request of an image function is rejected: there is no try, the promise
\* rejects with the error.
ImageAIRejects(err) ==
    /\ pc = "awaiting" /\ InImageCall
    /\ response' = Rejected(err)
    /\ pc' = "thrown"
    /\ result' = err
    /\ UNCHANGED <<call, locals, sent>>
    /\ UNCHANGED nonCall

\* The AI request resolves: the first image part is returned as a data URL.
ImageAIResolves(resp) ==
    /\ pc = "awaiting" /\ InImageCall
    /\ response' = [kind |-> "resolved", response |-> resp]
    /\ pc' = IF FirstImage(PartsOf(resp)).thrown THEN "thrown" ELSE "returned"
    /\ result' = FirstImage(PartsOf(resp)).value
    /\ UNCHANGED <<call, locals, sent>>
    /\ UNCHANGED nonCall

----------------------------------------------------------------------------
(* The arithmetic of the report, as the prompt of generateAssessmentReport states  *)
(* it.  6.25 and the activity multipliers are kept exact: BMR is held times 4, a   *)
(* multiplier times 40 (1.2 = 48/40, 1.375 = 55/40, 1.55 = 62/40, 1.725 = 69/40),  *)
(* TDEE times 160; the daily deficit is the fraction total gap / days.             *)

ActivityLevels == <<"sedentary", "lightly_active", "moderately_active", "very_active">>

\* The inputs the arithmetic is run on.
WeightSamples == {1, 60, 100}
HeightSamples == {1, 160, 175}
AgeSamples == {1, 30, 90}
TargetWeightSamples == {55, 80}
PeriodSamples == {8, 52}

CalcInputs ==
    [ currentWeight : WeightSamples, height : HeightSamples, age : AgeSamples,
      gender : Genders,
      dailyActivity : {ActivityLevels[i] : i \in DOMAIN ActivityLevels},
      targetWeight : TargetWeightSamples, targetPeriodWeeks : PeriodSamples ]

\* Faulty variant: the constants of men and women exchanged.
BMRx4Swapped(weight, height, age, gender) ==
    40 * weight + 25 * height - 20 * age
        + (IF gender = "male" THEN -644 ELSE 20)

\* Mifflin-St Jeor: 10 weight + 6.25 height - 5 age + 5 (men), - 161 (women).
BMRx4(weight, height, age, gender) ==
    40 * weight + 25 * height - 20 * age
        + (IF gender = "male" THEN 20 ELSE -644)

\* Faulty variant: the multipliers of the two lowest levels exchanged.
ActivityMultiplierX40Swapped(level) ==
    CASE level = "sedentary"         -> 55
      [] level = "lightly_active"    -> 48
      [] level = "moderately_active" -> 62
      [] level = "very_active"       -> 69

\* Sedentary 1.2, lightly active 1.375, moderately active 1.55, very active 1.725.
ActivityMultiplierX40(level) ==
    CASE level = "sedentary"         -> 48
      [] level = "lightly_active"    -> 55
      [] level = "moderately_active" -> 62
      [] level = "very_active"       -> 69

\* TDEE = BMR x activity multiplier.
TDEEx160(bmrX4, level) == bmrX4 * ActivityMultiplierX40(level)

\* excess_fat_kg = current weight - target weight, 0 if negative.
ExcessFatKg(currentWeight, targetWeight) ==
    IF currentWeight - targetWeight < 0 THEN 0 ELSE currentWeight - targetWeight

KcalPerKgFat == 7700

\* Total calorie gap = excess_fat_kg * 7700.
TotalCalorieGap(excessFatKg) == excessFatKg * KcalPerKgFat

\* The days of the target period: target weeks * 7.
TargetDays(targetPeriodWeeks) == targetPeriodWeeks * 7

MaxSafeDeficit == 1000

\* Min safe intake: 1200 kcal (women), 1500 kcal (men).
MinSafeIntake(gender) == IF gender = "female" THEN 1200 ELSE 1500

\* The realism check: the deficit gap / days is above 1000, or TDEE - deficit is
\* below the minimum safe intake.
IsUnrealistic(tdeeX160, gap, days, gender) ==
    \/ gap > MaxSafeDeficit * days
    \/ tdeeX160 * days - gap * 160 < MinSafeIntake(gender) * 160 * days

NoCalc == [none |-> TRUE]

Calculation(in) ==
    LET bmr  == BMRx4(in.currentWeight, in.height, in.age, in.gender)
        tdee == TDEEx160(bmr, in.dailyActivity)
        fat  == ExcessFatKg(in.currentWeight, in.targetWeight)
        gap  == TotalCalorieGap(fat)
        days == TargetDays(in.targetPeriodWeeks)
    IN  [ in |-> in, bmrX4 |-> bmr, tdeeX160 |-> tdee, excess_fat_kg |-> fat,
          total_gap |-> gap, days |-> days,
          is_timeline_realistic |-> ~IsUnrealistic(tdee, gap, days, in.gender) ]

\* The arithmetic is run on one set of inputs.
Calculate(in) ==
    /\ calc' = Calculation(in)
    /\ UNCHANGED callVars
    /\ UNCHANGED <<reports, page, studio, roadmap>>

----------------------------------------------------------------------------
(* Several generateAssessmentReport calls in flight at once.  The function keeps  *)
(* everything in parameters and locals; the module holds the client ai, which no  *)
(* call assigns.                                                                  *)

MaxCalls == 2
CallIds == 1 .. MaxCalls

ConcurrentQuizDatas ==
    {QuizOf(gender, "lose_weight", ValidQuizNumbers) : gender \in Genders}

ConcurrentTexts ==
    { JsonText(ReportJson(RequiredGroups, 500, 1500, TRUE, << >>,
                          Arr(<<180, 240>>), Arr(<<50, 70>>))),
      MalformedText }

ConcurrentAnswers ==
    {Rejected(err) : err \in AIErrors} \cup {Resolved(text) : text \in ConcurrentTexts}

IdleReport == [pc |-> "idle"]

\* What generateAssessmentReport settles with, given the answer to its request.
ReportOutcome(svc, answer) ==
    IF answer.kind = "rejected" THEN ReportCatch(svc, answer.error)
    ELSE LET parsed == JSONParse(answer.text) IN
         IF parsed.ok THEN [thrown |-> FALSE, value |-> parsed.value]
         ELSE ReportCatch(svc, parsed.error)

\* Faulty variant: a result kept at module level is handed to the next call.
SettleReportCached(rs, i, answer) ==
    IF \E j \in CallIds \ {i} : rs[j].pc \in {"returned", "thrown"}
    THEN LET j == CHOOSE j \in CallIds \ {i} : rs[j].pc \in {"returned", "thrown"}
         IN  [rs[i] EXCEPT !.pc = rs[j].pc, !.response = answer, !.result = rs[j].result]
    ELSE LET out == ReportOutcome(rs[i].svc, answer)
         IN  [rs[i] EXCEPT !.pc = IF out.thrown THEN "thrown" ELSE "returned",
                           !.response = answer, !.result = out.value]

\* Call i after the answer to its request: only its own parameters and its own
\* response are read.
SettleReport(rs, i, answer) ==
    LET out == ReportOutcome(rs[i].svc, answer)
    IN  [rs[i] EXCEPT !.pc = IF out.thrown THEN "thrown" ELSE "returned",
                      !.response = answer, !.result = out.value]

\* Call i starts: its request carries its quizData.
ConcurrentCall(i, svc, quizData) ==
    /\ reports[i].pc = "idle"
    /\ reports' = [reports EXCEPT ![i] =
                      [ pc |-> "awaiting", svc |-> svc, quizData |-> quizData,
                        request |-> [quizData |-> quizData],
                        response |-> Pending, result |-> NoResult ]]
    /\ UNCHANGED callVars
    /\ UNCHANGED <<calc, page, studio, roadmap>>

\* The request of call i is answered, whatever the other calls are doing.
ConcurrentAnswer(i, answer) ==
    /\ reports[i].pc = "awaiting"
    /\ reports' = [reports EXCEPT ![i] = SettleReport(reports, i, answer)]
    /\ UNCHANGED callVars
    /\ UNCHANGED <<calc, page, studio, roadmap>>

\* The caller of call i takes its settled promise.
ConcurrentTake(i) ==
    /\ reports[i].pc \in {"returned", "thrown"}
    /\ reports' = [reports EXCEPT ![i] = IdleReport]
    /\ UNCHANGED callVars
    /\ UNCHANGED <<calc, page, studio, roadmap>>

----------------------------------------------------------------------------
(* AssessmentPage: handleQuizComplete *)

\* The objects QuizContainer hands to onComplete; one comes with an id already.
SubmittedQuizDatas ==
    LET base == QuizOf("male", "lose_weight", ValidQuizNumbers) IN
    { base @@ [name |-> "Asha", email |-> "asha@example.com"],
      base @@ [name |-> "", email |-> ""],
      base @@ [name |-> "Asha", email |-> "asha@example.com",
               id |-> "2025-12-31T23:59:59.000Z"] }

\* AuthContext's currentUser: nobody, or a profile with or without a display name.
CurrentUsers ==
    { NULL, [displayName |-> "Asha K.", email |-> "asha.k@example.com"],
      [displayName |-> "null", email |-> "asha.k@example.com"] }

\* new Date().toISOString()
Timestamps == {"2026-01-01T10:00:00.000Z", "2026-01-01T10:05:00.000Z"}

\* { ...obj, key: value }: a new object.
SpreadWith(obj, key, value) ==
    [k \in DOMAIN obj \cup {key} |-> IF k = key THEN value ELSE obj[k]]

\* currentUser?.key
UserField(currentUser, key) ==
    IF currentUser = NULL THEN UndefinedString ELSE currentUser[key]

\* a || b on strings
OrElse(a, b) == IF Truthy(a) THEN a ELSE b

dataWithId(data, now) == SpreadWith(data, "id", now)

finalData(data, now, currentUser) ==
    SpreadWith(SpreadWith(dataWithId(data, now), "name",
                          OrElse(UserField(currentUser, "displayName"), data.name)),
               "email", OrElse(UserField(currentUser, "email"), data.email))

\* Faulty variant: the id is assigned to the object handed over.
DataAssignedId(data, now, currentUser) == SpreadWith(data, "id", now)

\* The object handed over, as the handler leaves it: no statement writes to data.
DataAfterQuizComplete(data, now, currentUser) == data

SheetRow(final) ==
    [ name |-> final.name, email |-> final.email, action |-> "Assessment Completed",
      details |-> <<"Goal: ", final.goal, ", Weight: ", final.currentWeight, "kg, Height: ",
                    final.height, "cm">> ]

GOOGLE_SCRIPT_URL == "https://script.google.com/macros/s/.../exec"

\* logToSheet up to its await: nothing to do if the URL is the placeholder, else the
\* fetch is started.
LogToSheet(row) ==
    IF GOOGLE_SCRIPT_URL = "INSERT_YOUR_WEB_APP_URL_HERE"
    THEN [fetch |-> "none", promise |-> "fulfilled"]
    ELSE [fetch |-> "pending", promise |-> "pending", body |-> row]

\* Faulty variant: no try around the fetch, its rejection is logToSheet's.
LogPromiseUncaught(outcome) == IF outcome = "rejected" THEN "rejected" ELSE "fulfilled"

\* logToSheet after its await: the fetch resolved, or its error was caught and
\* logged; either way the function ends and its promise is fulfilled.
LogPromiseAfter(outcome) == "fulfilled"

FetchOutcomes == {"resolved", "rejected"}

NoPage == [route |-> "/assessment"]

\* handleQuizComplete(data): setQuizData(finalData), logToSheet(...), navigate('/report').
HandleQuizComplete(data, currentUser, now) ==
    /\ page' = [ route     |-> "/report",
                 given     |-> data,
                 submitted |-> DataAfterQuizComplete(data, now, currentUser),
                 quizData  |-> finalData(data, now, currentUser),
                 sheet     |-> SheetRow(finalData(data, now, currentUser)),
                 log       |-> LogToSheet(SheetRow(finalData(data, now, currentUser))),
                 effects   |-> <<"setQuizData", "logToSheet", "navigate">> ]
    /\ UNCHANGED callVars
    /\ UNCHANGED <<calc, reports, studio, roadmap>>

\* The fetch of logToSheet settles, at any time after the handler has returned.
SheetFetchSettles(outcome) ==
    /\ page # NoPage
    /\ page.log.fetch = "pending"
    /\ page' = [page EXCEPT !.log.fetch = outcome,
                            !.log.promise = LogPromiseAfter(outcome)]
    /\ UNCHANGED callVars
    /\ UNCHANGED <<calc, reports, studio, roadmap>>

\* AppContext's quizData, null before the first assessment.
ContextQuizData == IF page = NoPage THEN NULL ELSE page.quizData

----------------------------------------------------------------------------
(* ReportContent: TransformationRoadmap *)

\* Nothing rendered yet.
NoRoadmap == [none |-> TRUE]

\* A number on the page; a key that is not there renders as undefined.
Num(n) == [number |-> n]
NumProp(obj, key) == IF key \in DOMAIN obj THEN Num(obj[key]) ELSE UNDEFINED

\* What TransformationRoadmap puts on the page for data: reading a field of a
\* timeline or of numbers that is not there throws.
RenderRoadmap(data) ==
    IF "timeline" \notin DOMAIN data \/ "numbers" \notin DOMAIN data
    THEN [data |-> data, crashed |-> TRUE]
    ELSE [ data    |-> data,
           crashed |-> FALSE,
           weeks   |-> IF data.timeline.is_timeline_realistic
                       THEN NumProp(data.timeline, "weeks_to_goal")
                       ELSE NumProp(data.timeline, "adjusted_timeline_weeks"),
           warning |-> ~data.timeline.is_timeline_realistic,
           warning_weeks |-> NumProp(data.timeline, "adjusted_timeline_weeks") ]

\* ReportContent renders the report generateAssessmentReport returned, unless there
\* is none; the roadmap is part of it.
Render ==
    /\ pc = "returned" /\ call.fn = "generateAssessmentReport"
    /\ result # NULL
    /\ roadmap' = RenderRoadmap(result)
    /\ UNCHANGED callVars
    /\ UNCHANGED <<calc, reports, page, studio>>

----------------------------------------------------------------------------
(* AIStudioPage: the React state, the two handlers and the controls that call them *)

StudioTabs == {"edit", "generate"}
StudioPrompts == {"", "Make it a retro poster."}
StudioRatios == {"1:1", "16:9"}

\* What FileReader.readAsDataURL hands to setSourceImage: a data URL, or "data:" alone
\* for an empty file.
StudioFiles == {Text(DataUrl("image/png", "iVBORw0KGgo=")), Text(<<"data:">>)}

\* The answers of the AI service to an image request.
StudioErrors == {[name |-> "Error", message |-> "503 Service Unavailable"]}
StudioResponses ==
    { NoCandidates,
      Candidate(<<TextPart("Here you are."), InlinePart("image/png", "AAAA")>>),
      Candidate(<<InlinePart("image/jpeg", "BBBB")>>) }

\* useState's initial values; handlers holds the handler calls that are at their await.
StudioInit ==
    [ activeTab |-> "edit", loading |-> FALSE,
      sourceImage |-> NULL, editPrompt |-> "", editedResult |-> NULL,
      genPrompt |-> "", aspectRatio |-> "1:1", generatedResult |-> NULL,
      handlers |-> << >>, event |-> "mount" ]

\* !sourceImage
NoSource(st) == st.sourceImage = NULL \/ st.sourceImage = Text(<< >>)

\* Faulty variant: the button does not look at loading.
EditDisabledIgnoringLoading(st) == NoSource(st) \/ st.editPrompt = ""

\* disabled={loading || !sourceImage || !editPrompt}
EditDisabled(st) == st.loading \/ NoSource(st) \/ st.editPrompt = ""

\* disabled={loading || !genPrompt}
GenerateDisabled(st) == st.loading \/ st.genPrompt = ""

Fulfilled(value) == [kind |-> "fulfilled", value |-> value]

\* editUserImage up to its await: a rejected promise, no request sent, for a string
\* that is no data URL; otherwise the request is sent.
EditHandler(st) ==
    IF MatchDataUrl(st.sourceImage.text).matched
    THEN [kind |-> "edit", promise |-> Pending, sent |-> 1]
    ELSE [kind |-> "edit", promise |-> Rejected(InvalidImageData), sent |-> 0]

\* Faulty variant: the result of the edit before is left on the page.
StartEditKeepsResult(st) ==
    IF NoSource(st) \/ st.editPrompt = "" THEN st
    ELSE [st EXCEPT !.loading = TRUE, !.handlers = Append(@, EditHandler(st))]

\* handleEdit up to its await.
StartEdit(st) ==
    IF NoSource(st) \/ st.editPrompt = "" THEN st
    ELSE [st EXCEPT !.loading = TRUE, !.editedResult = NULL,
                    !.handlers = Append(@, EditHandler(st))]

\* handleGenerate up to its await.
StartGenerate(st) ==
    IF st.genPrompt = "" THEN st
    ELSE [st EXCEPT !.loading = TRUE, !.generatedResult = NULL,
                    !.handlers = Append(@, [kind |-> "generate", promise |-> Pending,
                                            sent |-> 1])]

\* The promise of an image function once the AI has answered.
ImagePromise(answer) ==
    IF answer.kind = "rejected" THEN answer
    ELSE IF FirstImage(PartsOf(answer.response)).thrown
         THEN Rejected(FirstImage(PartsOf(answer.response)).value)
         ELSE Fulfilled(FirstImage(PartsOf(answer.response)).value)

StudioAnswers ==
    {Rejected(err) : err \in StudioErrors}
    \cup {[kind |-> "resolved", response |-> resp] : resp \in StudioResponses}

Without(seq, i) == SubSeq(seq, 1, i - 1) \o SubSeq(seq, i + 1, Len(seq))

\* Faulty variant: setLoading(false) at the end of the try block, with no finally.
AfterAwaitNoFinally(st, i) ==
    LET h == st.handlers[i] IN
    IF h.promise.kind = "fulfilled"
    THEN IF h.kind = "edit"
         THEN [st EXCEPT !.editedResult = h.promise.value, !.loading = FALSE,
                         !.handlers = Without(@, i)]
         ELSE [st EXCEPT !.generatedResult = h.promise.value, !.loading = FALSE,
                         !.handlers = Without(@, i)]
    ELSE [st EXCEPT !.handlers = Without(@, i)]

\* A handler after its await: the result is set, or the catch block alerts; finally
\* setLoading(false).
AfterAwait(st, i) ==
    LET h == st.handlers[i] IN
    IF h.promise.kind = "fulfilled"
    THEN IF h.kind = "edit"
         THEN [st EXCEPT !.editedResult = h.promise.value, !.loading = FALSE,
                         !.handlers = Without(@, i)]
         ELSE [st EXCEPT !.generatedResult = h.promise.value, !.loading = FALSE,
                         !.handlers = Without(@, i)]
    ELSE [st EXCEPT !.loading = FALSE, !.handlers = Without(@, i)]

StudioFrame == UNCHANGED callVars /\ UNCHANGED <<calc, reports, page, roadmap>>

\* One of the two tab buttons is clicked.
SelectTab(tab) ==
    /\ studio' = [studio EXCEPT !.activeTab = tab, !.event = "setActiveTab"]
    /\ StudioFrame

\* A file is picked on the edit tab and read.
SelectFile(file) ==
    /\ studio.activeTab = "edit"
    /\ studio' = [studio EXCEPT !.sourceImage = file, !.event = "setSourceImage"]
    /\ StudioFrame

\* The instructions are typed on the edit tab.
TypeEditPrompt(text) ==
    /\ studio.activeTab = "edit"
    /\ studio' = [studio EXCEPT !.editPrompt = text, !.event = "setEditPrompt"]
    /\ StudioFrame

\* The description is typed on the generate tab.
TypeGenPrompt(text) ==
    /\ studio.activeTab = "generate"
    /\ studio' = [studio EXCEPT !.genPrompt = text, !.event = "setGenPrompt"]
    /\ StudioFrame

\* An aspect ratio is picked on the generate tab.
SelectAspectRatio(ratio) ==
    /\ studio.activeTab = "generate"
    /\ studio' = [studio EXCEPT !.aspectRatio = ratio, !.event = "setAspectRatio"]
    /\ StudioFrame

\* Magic Edit is clicked: the button is on the edit tab and not disabled.
ClickEdit ==
    /\ studio.activeTab = "edit"
    /\ ~EditDisabled(studio)
    /\ studio' = [StartEdit(studio) EXCEPT !.event = "handleEdit"]
    /\ StudioFrame

\* Generate is clicked: the button is on the generate tab and not disabled.
ClickGenerate ==
    /\ studio.activeTab = "generate"
    /\ ~GenerateDisabled(studio)
    /\ studio' = [StartGenerate(studio) EXCEPT !.event = "handleGenerate"]
    /\ StudioFrame

\* The AI service answers the request of handler i.
StudioAIAnswers(i, answer) ==
    /\ i \in DOMAIN studio.handlers
    /\ studio.handlers[i].promise = Pending
    /\ studio' = [studio EXCEPT !.handlers[i].promise = ImagePromise(answer),
                                !.event = "answer"]
    /\ StudioFrame

\* Handler i goes on after its await, its promise settled.
StudioContinue(i) ==
    /\ i \in DOMAIN studio.handlers
    /\ studio.handlers[i].promise # Pending
    /\ studio' = [AfterAwait(studio, i) EXCEPT
                     !.event = IF studio.handlers[i].promise.kind = "fulfilled"
                               THEN studio.handlers[i].kind
                               ELSE "alert"]
    /\ StudioFrame

----------------------------------------------------------------------------
(* The caller takes the settled promise; the next call may start. *)

Settle ==
    /\ pc \in {"returned", "thrown"}
    /\ pc' = "idle"
    /\ call' = NoCall
    /\ locals' = NoLocals
    /\ sent' = 0
    /\ response' = Pending
    /\ result' = NoResult
    /\ UNCHANGED nonCall

----------------------------------------------------------------------------

Init ==
    /\ pc = "idle"
    /\ call = NoCall
    /\ locals = NoLocals
    /\ sent = 0
    /\ response = Pending
    /\ result = NoResult
    /\ calc = NoCalc
    /\ reports = [i \in CallIds |-> IdleReport]
    /\ page = NoPage
    /\ studio = StudioInit
    /\ roadmap = NoRoadmap

Next ==
    \/ \E svc \in Svcs, quizData \in QuizDatas \cup {NULL}, k \in 0 .. RandGrain - 1 :
          \E reportImage \in ReportImagesFor(quizData) :
              CallGenerateWorkoutPlan(svc, reportImage, quizData, k)
    \/ \E err \in AIErrors : PlanAIRejects(err)
    \/ \E text \in PlanResponseTexts : PlanAIResolves(text)
    \/ \E svc \in Svcs, quizData \in QuizDatas : CallGenerateAssessmentReport(svc, quizData)
    \/ \E err \in AIErrors : ReportAIRejects(err)
    \/ \E text \in ReportResponseTexts : ReportAIResolves(text)
    \/ \E svc \in Svcs, userName \in UserNames, trainerName \in NoteTrainerNames,
          quizData \in {NULL, QuizOf("male", "lose_weight", ValidQuizNumbers)} :
          CallGenerateAutoTrainerNote(svc, userName, trainerName, quizData)
    \/ \E err \in AIErrors : NoteAIRejects(err)
    \/ \E text \in NoteResponseTexts : NoteAIResolves(text)
    \/ \E fn \in ChatFns, svc \in Svcs, chatHistory \in ChatHistories,
          createThrows \in BOOLEAN : CallChat(fn, svc, chatHistory, createThrows)
    \/ \E err \in AIErrors : ChatAIRejects(err)
    \/ \E text \in ChatResponseTexts : ChatAIResolves(text)
    \/ \E base64Image \in ImageStrings, prompt \in ImagePrompts :
          CallEditUserImage(base64Image, prompt)
    \/ \E prompt \in ImagePrompts, aspectRatio \in AspectRatios :
          CallGenerateMotivationImage(prompt, aspectRatio)
    \/ \E err \in AIErrors : ImageAIRejects(err)
    \/ \E resp \in ImageResponses : ImageAIResolves(resp)
    \/ Settle

Spec == Init /\ [][Next]_vars

\* The arithmetic alone, over its inputs.
NextCalc == \E in \in CalcInputs : Calculate(in)

SpecCalc == Init /\ [][NextCalc]_vars

\* Report generations side by side, in any interleaving.
NextConcurrent ==
    \/ \E i \in CallIds, svc \in Svcs, quizData \in ConcurrentQuizDatas :
          ConcurrentCall(i, svc, quizData)
    \/ \E i \in CallIds, answer \in ConcurrentAnswers : ConcurrentAnswer(i, answer)
    \/ \E i \in CallIds : ConcurrentTake(i)

SpecConcurrent == Init /\ [][NextConcurrent]_vars

\* The quiz is handed in and the pages call the service with AppContext's quizData.
NextQuiz ==
    \/ \E data \in SubmittedQuizDatas, currentUser \in CurrentUsers, now \in Timestamps :
          HandleQuizComplete(data, currentUser, now)
    \/ \E outcome \in FetchOutcomes : SheetFetchSettles(outcome)
    \/ \E svc \in Svcs, quizData \in {ContextQuizData} \ {NULL} :
          CallGenerateAssessmentReport(svc, quizData)
    \/ \E err \in AIErrors : ReportAIRejects(err)
    \/ \E text \in ConcurrentTexts : ReportAIResolves(text)
    \/ \E svc \in Svcs, k \in {0, RandGrain - 1} :
          CallGenerateWorkoutPlan(svc, NULL, ContextQuizData, k)
    \/ \E err \in AIErrors : PlanAIRejects(err)
    \/ \E text \in PlanResponseTexts : PlanAIResolves(text)
    \/ \E svc \in Svcs, trainerName \in NoteTrainerNames :
          CallGenerateAutoTrainerNote(svc, "Asha", trainerName, ContextQuizData)
    \/ \E err \in AIErrors : NoteAIRejects(err)
    \/ \E text \in NoteResponseTexts : NoteAIResolves(text)
    \/ Settle

SpecQuiz == Init /\ [][NextQuiz]_vars

\* One report generated and rendered.
NextRoadmap ==
    \/ \E svc \in Svcs, quizData \in QuizDatas : CallGenerateAssessmentReport(svc, quizData)
    \/ \E err \in AIErrors : ReportAIRejects(err)
    \/ \E text \in ReportResponseTexts : ReportAIResolves(text)
    \/ Render

SpecRoadmap == Init /\ [][NextRoadmap]_vars

\* The user at AIStudioPage and the AI service behind it.
NextStudio ==
    \/ \E tab \in StudioTabs : SelectTab(tab)
    \/ \E file \in StudioFiles : SelectFile(file)
    \/ \E text \in StudioPrompts : TypeEditPrompt(text)
    \/ \E text \in StudioPrompts : TypeGenPrompt(text)
    \/ \E ratio \in StudioRatios : SelectAspectRatio(ratio)
    \/ ClickEdit
    \/ ClickGenerate
    \/ \E i \in DOMAIN studio.handlers, answer \in StudioAnswers :
          StudioAIAnswers(i, answer)
    \/ \E i \in DOMAIN studio.handlers : StudioContinue(i)

SpecStudio == Init /\ [][NextStudio]_vars

\* The event loop runs a handler's continuation once its promise has settled.
SpecStudioFair ==
    SpecStudio /\ WF_vars(\E i \in DOMAIN studio.handlers : StudioContinue(i))

----------------------------------------------------------------------------
(* Properties of generateWorkoutPlan *)

InPlanCall == call.fn = "generateWorkoutPlan"

PlanGoal == userGoalOf(call.quizData)

\* How often name occurs in the pool the trainer is drawn from.
PoolCount(name) == Cardinality({i \in DOMAIN locals.pool : locals.pool[i] = name})

\* C1: every value generateWorkoutPlan returns, after a parsed response as well as
\* from its catch block, carries an assigned_trainer whose name is one of Athul,
\* Athithiya and Saieel.
C1_AssignedTrainerIsATrainer ==
    (InPlanCall /\ pc = "returned") =>
        /\ "assigned_trainer" \in DOMAIN result
        /\ result.assigned_trainer.name \in {"Athul", "Athithiya", "Saieel"}

\* The largest random draw, with no quiz data, returns the last trainer.
C1_Witness ==
    /\ InPlanCall /\ pc = "returned"
    /\ call.quizData = NULL
    /\ call.random = RandGrain - 1
    /\ response.kind = "resolved"
    /\ result.assigned_trainer.name = "Saieel"

\* C2: when the goal maps to a target specialty, the pool holds each trainer with
\* that specialty exactly 5 times and every other trainer exactly once, and the
\* assigned trainer is the pool's entry at the drawn index.
C2_WeightedPoolForMappedGoal ==
    (InPlanCall /\ PlanGoal \in {"lose_weight", "gain_muscle", "get_shredded"}) =>
        /\ \A i \in DOMAIN allTrainers :
              PoolCount(allTrainers[i].name) =
                 IF Includes(allTrainers[i].specialties, goalToSpecialtyMap(PlanGoal))
                 THEN 5 ELSE 1
        /\ locals.assignedTrainerName =
              locals.pool[((call.random * Len(locals.pool)) \div RandGrain) + 1]

\* C3 as stated: for lose_weight, Athul and Saieel together hold 5/7 of the
\* weighted pool and Athithiya 1/7.
C3_FiveSeventhsShare ==
    (InPlanCall /\ PlanGoal = "lose_weight" /\ locals.targetSpecialty = "Weight Loss") =>
        /\ 7 * (PoolCount("Athul") + PoolCount("Saieel")) = 5 * Len(locals.pool)
        /\ 7 * PoolCount("Athithiya") = Len(locals.pool)

\* C3, amended: for lose_weight the weighted pool of part_000 has 11 entries, 10 of
\* them Athul or Saieel (5 each) and 1 Athithiya; services/geminiService.ts draws
\* from the 3 names, 2 of them Athul or Saieel; the trainer assigned is the entry
\* at the drawn index.
C3_TenElevenths ==
    (InPlanCall /\ PlanGoal = "lose_weight") =>
        /\ call.svc = Part000 =>
              /\ Len(locals.pool) = 11
              /\ PoolCount("Athul") = 5 /\ PoolCount("Saieel") = 5
              /\ PoolCount("Athithiya") = 1
        /\ call.svc = ServicesTs =>
              /\ Len(locals.pool) = 3
              /\ PoolCount("Athul") = 1 /\ PoolCount("Saieel") = 1
              /\ PoolCount("Athithiya") = 1
        /\ locals.assignedTrainerName \in {"Athul", "Athithiya", "Saieel"}
        /\ PoolCount(locals.assignedTrainerName) >= 1

\* The one pool entry of the non-specialist is drawn for lose_weight.
C3_Witness ==
    /\ InPlanCall /\ pc = "returned"
    /\ call.svc = Part000
    /\ PlanGoal = "lose_weight"
    /\ response.kind = "resolved"
    /\ Len(locals.pool) = 11
    /\ result.assigned_trainer.name = "Athithiya"

\* C4: lose_weight maps to "Weight Loss", gain_muscle to "Bodybuilding" and
\* get_shredded to "Lean Body", and the pool is weighted by that specialty; for an
\* unknown goal or absent quiz data there is no target specialty and the pool holds
\* each of the 3 trainers once.
C4_GoalToSpecialty ==
    InPlanCall =>
        /\ PlanGoal = "lose_weight" =>
              locals.targetSpecialty = "Weight Loss" /\ PoolCount("Athithiya") = 1
        /\ PlanGoal = "gain_muscle" =>
              locals.targetSpecialty = "Bodybuilding" /\ PoolCount("Athul") = 1
        /\ PlanGoal = "get_shredded" =>
              locals.targetSpecialty = "Lean Body" /\ PoolCount("Saieel") = 1
        /\ PlanGoal \notin {"lose_weight", "gain_muscle", "get_shredded"} =>
              /\ locals.targetSpecialty \in {"null", "undefined"}
              /\ Len(locals.pool) = 3
              /\ \A n \in {"Athul", "Athithiya", "Saieel"} : PoolCount(n) = 1

----------------------------------------------------------------------------
(* Properties of generateAssessmentReport *)

InReportCall == call.fn = "generateAssessmentReport"

\* The call met a failure: the AI request was rejected, or its text is no JSON.
ReportFailed ==
    /\ InReportCall /\ pc \in {"returned", "thrown"}
    /\ \/ response.kind = "rejected"
       \/ response.kind = "resolved" /\ response.text.kind # "json"

\* The error the catch block received.
CaughtError ==
    IF response.kind = "rejected" THEN response.error ELSE JSONParse(response.text).error

HasAllGroups(report) ==
    {"numbers", "timeline", "nutrition_targets", "body_comp", "flags", "methodology",
     "report_markdown"} \subseteq DOMAIN report

\* C5 as stated: every failure of generateAssessmentReport ends with a well-formed
\* fallback report returned, never with an exception.
C5_FailureReturnsFallback ==
    ReportFailed => (pc = "returned" /\ HasAllGroups(result))

\* C5, amended: in part_000 a failure that is not a SyntaxError returns the
\* fallback report, and a SyntaxError (a response text that is no JSON, or a
\* request rejected with one) rejects with the AI_JSON_PARSE_ERROR error; in
\* services/geminiService.ts every failure rejects with the error caught.
C5_FailurePaths ==
    ReportFailed =>
        IF call.svc = Part000
        THEN IF CaughtError.name = "SyntaxError"
             THEN /\ pc = "thrown"
                  /\ result.name = "Error"
                  /\ result.message =
                       "AI_JSON_PARSE_ERROR: Failed to parse the structured report from the AI."
             ELSE pc = "returned" /\ HasAllGroups(result)
        ELSE pc = "thrown" /\ result = CaughtError

\* A response text that is no JSON makes part_000 reject.
C5_Witness ==
    /\ ReportFailed
    /\ call.svc = Part000
    /\ response.kind = "resolved"
    /\ pc = "thrown"
    /\ result.name = "Error"

\* C6: the fallback report returned on failure has all seven groups, every number
\* of numbers, timeline and nutrition_targets 0, carbs_g_range and fats_g_range
\* null, is_timeline_realistic true without adjusted_timeline_weeks, and a
\* non-empty report_markdown.
C6_FallbackReportShape ==
    (ReportFailed /\ pc = "returned") =>
        /\ HasAllGroups(result)
        /\ \A f \in {"current_maintenance_calories", "daily_calorie_deficit_needed",
                     "target_intake_kcal", "target_burn_per_day_activity"} :
              result.numbers[f] = 0
        /\ \A f \in {"excess_fat_kg", "weeks_to_goal", "projected_loss_per_week_kg"} :
              result.timeline[f] = 0
        /\ \A f \in {"recommended_calories_kcal", "protein_g", "water_l"} :
              result.nutrition_targets[f] = 0
        /\ result.nutrition_targets.carbs_g_range = NULL
        /\ result.nutrition_targets.fats_g_range = NULL
        /\ result.timeline.is_timeline_realistic = TRUE
        /\ "adjusted_timeline_weeks" \notin DOMAIN result.timeline
        /\ result.report_markdown # ""

\* A rejected request in part_000 returns the fallback report.
C6_Witness ==
    /\ ReportFailed
    /\ pc = "returned"
    /\ response.kind = "rejected"
    /\ result.numbers.target_intake_kcal = 0

\* C7: no report lacking one of the seven required groups is returned.
C7_NoPartialReport ==
    (InReportCall /\ pc = "returned") => HasAllGroups(result)

\* C8: in every returned report, adjusted_timeline_weeks is present exactly when
\* is_timeline_realistic is false.
C8_AdjustedIffUnrealistic ==
    (InReportCall /\ pc = "returned" /\ "timeline" \in DOMAIN result) =>
        (("adjusted_timeline_weeks" \in DOMAIN result.timeline)
            <=> (result.timeline.is_timeline_realistic = FALSE))

\* C9: in every returned report, a daily_calorie_deficit_needed above 1000 comes
\* with is_timeline_realistic false and an adjusted_timeline_weeks above 0.
C9_LargeDeficitIsUnrealistic ==
    (/\ InReportCall /\ pc = "returned"
     /\ {"numbers", "timeline"} \subseteq DOMAIN result
     /\ result.numbers.daily_calorie_deficit_needed > 1000) =>
        /\ result.timeline.is_timeline_realistic = FALSE
        /\ "adjusted_timeline_weeks" \in DOMAIN result.timeline
        /\ result.timeline.adjusted_timeline_weeks > 0

\* C10: in every returned report, target_intake_kcal is at least 1200 for a female
\* user and at least 1500 for a male user.
C10_IntakeAtLeastMinimum ==
    (InReportCall /\ pc = "returned" /\ "numbers" \in DOMAIN result) =>
        result.numbers.target_intake_kcal >=
            (IF call.quizData.gender = "female" THEN 1200 ELSE 1500)

\* A range field as rendering may take it: null, or an array of two numbers in order.
IsRangeOrNull(v) ==
    \/ v = NULL
    \/ /\ "array" \in DOMAIN v
       /\ Len(v.array) = 2
       /\ v.array[1] <= v.array[2]

\* C11: in every returned report, carbs_g_range and fats_g_range are each null or
\* an array of exactly two numbers [min, max] with min <= max, never a string and
\* never an array of another length.
C11_RangesArePairsOrNull ==
    (InReportCall /\ pc = "returned" /\ "nutrition_targets" \in DOMAIN result) =>
        /\ IsRangeOrNull(result.nutrition_targets.carbs_g_range)
        /\ IsRangeOrNull(result.nutrition_targets.fats_g_range)

----------------------------------------------------------------------------
(* Properties of the arithmetic *)

Calculated == calc # NoCalc

LevelsIncrease(bmrX4) ==
    \A i, j \in DOMAIN ActivityLevels :
        i < j => TDEEx160(bmrX4, ActivityLevels[i]) < TDEEx160(bmrX4, ActivityLevels[j])

\* C12 as stated: for all inputs with weight, height and age above 0, TDEE is
\* above 0 and, for the BMR fixed, strictly increases from sedentary to very_active.
C12_TdeePositiveAndIncreasing ==
    (Calculated /\ calc.in.currentWeight > 0 /\ calc.in.height > 0 /\ calc.in.age > 0) =>
        /\ calc.tdeeX160 > 0
        /\ LevelsIncrease(calc.bmrX4)

\* C12, amended: TDEE is above 0, and strictly increases from sedentary to
\* very_active for the BMR fixed, exactly for the inputs whose Mifflin-St Jeor BMR
\* is above 0 (10 weight + 6.25 height - 5 age above -5 for men, above 161 for
\* women); weight, height and age above 0 do not ensure that.
C12_TdeeFollowsBmr ==
    Calculated =>
        LET w == calc.in.currentWeight
            h == calc.in.height
            a == calc.in.age
            positive == IF calc.in.gender = "male"
                        THEN 40 * w + 25 * h - 20 * a > -20
                        ELSE 40 * w + 25 * h - 20 * a > 644
        IN  /\ positive <=> calc.tdeeX160 > 0
            /\ positive <=> LevelsIncrease(calc.bmrX4)

\* A light, short and old person has a negative BMR.
C12_Witness ==
    /\ Calculated
    /\ calc.in.currentWeight = 1 /\ calc.in.height = 1 /\ calc.in.age = 90
    /\ calc.tdeeX160 < 0

\* C13: for 100 kg, 175 cm, age 30, male, moderately_active, target 80 kg in 8
\* weeks: BMR 1748.75, TDEE about 2710.6, excess fat 20 kg, total gap 154000 kcal,
\* deficit 154000/56 = 2750, above 1000, so the plan is unrealistic.
C13_WorkedExample ==
    (/\ Calculated
     /\ calc.in = [ currentWeight |-> 100, height |-> 175, age |-> 30, gender |-> "male",
                    dailyActivity |-> "moderately_active", targetWeight |-> 80,
                    targetPeriodWeeks |-> 8 ]) =>
        /\ calc.bmrX4 = 6995                                  \* 4 x 1748.75
        /\ calc.tdeeX160 >= 433688 /\ calc.tdeeX160 < 433704   \* 160 x [2710.55, 2710.65)
        /\ calc.excess_fat_kg = 20
        /\ calc.total_gap = 154000
        /\ calc.days = 56
        /\ calc.total_gap = 2750 * calc.days
        /\ calc.is_timeline_realistic = FALSE

\* C13, amended: for the same inputs the formulas give BMR = 1000 + 1093.75 - 150
\* + 5 = 1948.75 and TDEE = 1948.75 x 1.55 = 3020.5625 (about 3020.6); excess fat
\* 20 kg, total gap 154000 kcal and deficit 154000/56 = 2750, above 1000, so the
\* plan is unrealistic.
C13_WorkedExampleAmended ==
    (/\ Calculated
     /\ calc.in = [ currentWeight |-> 100, height |-> 175, age |-> 30, gender |-> "male",
                    dailyActivity |-> "moderately_active", targetWeight |-> 80,
                    targetPeriodWeeks |-> 8 ]) =>
        /\ calc.bmrX4 = 7795                                  \* 4 x 1948.75
        /\ calc.tdeeX160 = 483290                             \* 160 x 3020.5625
        /\ calc.excess_fat_kg = 20
        /\ calc.total_gap = 154000
        /\ calc.days = 56
        /\ calc.total_gap = 2750 * calc.days
        /\ calc.total_gap > MaxSafeDeficit * calc.days
        /\ calc.is_timeline_realistic = FALSE

C13_Witness ==
    /\ Calculated
    /\ calc.in.currentWeight = 100 /\ calc.in.height = 175 /\ calc.in.age = 30
    /\ calc.in.gender = "male" /\ calc.in.dailyActivity = "moderately_active"
    /\ calc.in.targetWeight = 80 /\ calc.in.targetPeriodWeeks = 8
    /\ calc.total_gap = 154000

----------------------------------------------------------------------------
(* Properties of generateAssessmentReport's inputs and requests *)

NumbersInRange(quizData) ==
    /\ quizData.currentWeight > 0
    /\ quizData.height > 0
    /\ quizData.age > 0
    /\ quizData.targetPeriodWeeks > 0
    /\ \E i \in DOMAIN ActivityLevels : quizData.dailyActivity = ActivityLevels[i]

\* C14: when weight, height, age or targetPeriodWeeks of the QuizData is not above
\* 0, or its activity level is not one of the four, generateAssessmentReport sends
\* no request to the AI service.
C14_InvalidQuizSendsNothing ==
    (InReportCall /\ ~NumbersInRange(call.quizData)) => sent = 0

\* C15: no retry or backoff: one call of generateAssessmentReport,
\* generateWorkoutPlan, generateAutoTrainerNote, editUserImage or
\* generateMotivationImage sends at most one request to the AI service, whether the
\* request succeeds or fails; the request counted is the one the call awaits.
C15_AtMostOneRequest ==
    /\ sent <= 1
    /\ pc = "awaiting" => sent = 1
    /\ pc = "idle" => sent = 0

\* A report call, a plan call, a note call or an image call has settled after its
\* request failed.
C15_Witness ==
    /\ call.fn = "generateAssessmentReport"
    /\ pc \in {"returned", "thrown"}
    /\ response.kind = "rejected"
    /\ sent = 1

----------------------------------------------------------------------------
(* Properties of report generations side by side *)

ReportSettled(i) == reports[i].pc \in {"returned", "thrown"}

\* C16: in any interleaving of generateAssessmentReport calls in flight, the request
\* of each call carries its own QuizData and what each call settles with is
\* determined by the answer to its own request alone: the parsed JSON document, the
\* catch block's value for its own error, whatever the other calls have done.
C16_ReportsIndependent ==
    \A i \in CallIds :
        /\ reports[i].pc # "idle" => reports[i].request.quizData = reports[i].quizData
        /\ ReportSettled(i) =>
             LET r == reports[i] IN
             IF r.response.kind = "resolved" /\ r.response.text.kind = "json"
             THEN r.pc = "returned" /\ r.result = r.response.text.value
             ELSE IF r.response.kind = "rejected" /\ r.response.error.name # "SyntaxError"
             THEN IF r.svc = Part000
                  THEN r.pc = "returned" /\ r.result = FallbackReport
                  ELSE r.pc = "thrown" /\ r.result = r.response.error
             ELSE r.pc = "thrown" /\ r.result.name \in {"Error", "SyntaxError"}

\* Two calls have settled differently, the second one after the first.
C16_Witness ==
    /\ ReportSettled(1) /\ ReportSettled(2)
    /\ reports[1].pc = "thrown" /\ reports[2].pc = "returned"
    /\ reports[1].quizData # reports[2].quizData
    /\ reports[1].result # reports[2].result

----------------------------------------------------------------------------
(* Properties of the QuizData objects *)

QuizDataCalls == {"generateAssessmentReport", "generateWorkoutPlan", "generateAutoTrainerNote"}

\* C17: QuizData is never mutated after submission: after handleQuizComplete the
\* object it was given is as it was given, the id and the name and email overrides
\* being in new objects; and from its call to its settling, generateAssessmentReport,
\* generateWorkoutPlan and generateAutoTrainerNote leave their quizData as received.
C17_QuizDataNeverMutated ==
    [][ /\ page' # NoPage => page'.submitted = page'.given
        /\ (call.fn \in QuizDataCalls /\ call'.fn = call.fn) => call'.quizData = call.quizData
      ]_vars

\* A logged-in user has handed in a quiz without id, and a service call made with
\* the new object has settled.
C17_Witness ==
    /\ page # NoPage
    /\ "id" \notin DOMAIN page.given
    /\ "id" \in DOMAIN page.quizData
    /\ page.quizData.name # page.given.name
    /\ call.fn \in QuizDataCalls
    /\ pc \in {"returned", "thrown"}
    /\ call.quizData = page.quizData

----------------------------------------------------------------------------
(* Properties of the failure paths of the other service functions *)

PlanFailed ==
    \/ response.kind = "rejected"
    \/ response.kind = "resolved" /\ JSONParse(response.text).ok = FALSE
    \/ response.kind = "resolved" /\ response.text = JsonText(NULL)

\* C18: generateWorkoutPlan never rejects: when the AI call fails or its response
\* cannot be parsed, it returns the placeholder: assigned_trainer Athul,
\* workout_guide_draft null, needs_assessment false, the placeholder
\* extracted_from_report with its parse_notes, and an error presentation_markdown.
C18_PlanNeverRejects ==
    (InPlanCall /\ pc \in {"returned", "thrown"} /\ PlanFailed) =>
        /\ pc = "returned"
        /\ result.assigned_trainer.name = "Athul"
        /\ result.workout_guide_draft = NULL
        /\ result.needs_assessment = FALSE
        /\ result.extracted_from_report = placeholderExtractedData
        /\ "parse_notes" \in DOMAIN result.extracted_from_report
        /\ "presentation_markdown" \in DOMAIN result

InNoteCall == call.fn = "generateAutoTrainerNote"

NoteFailed == response.kind = "rejected" \/ response = Resolved(NoText)

\* C19: generateAutoTrainerNote never rejects: it resolves with a string, and when
\* the AI call failed (the request rejected, or the response without text) that
\* string is the fallback note, which contains the given userName and the given
\* trainerName.
C19_NoteNeverRejects ==
    (InNoteCall /\ pc \in {"returned", "thrown"}) =>
        /\ pc = "returned"
        /\ "text" \in DOMAIN result
        /\ NoteFailed =>
             /\ Includes(result.text, call.userName)
             /\ Includes(result.text, call.trainerName)
             /\ Head(result.text) = "Hi "

\* The request of a note call was rejected and the fallback note returned.
C19_Witness ==
    /\ InNoteCall
    /\ pc = "returned"
    /\ response.kind = "rejected"
    /\ call.userName = "Asha" /\ call.trainerName = "Saieel"
    /\ Includes(result.text, "Saieel")

ChatFailed ==
    \/ locals.created = FALSE /\ "userPrompt" \in DOMAIN locals
    \/ response.kind = "rejected"

\* C20: getTrainerChatbotResponse and getCalorieCoachResponse always resolve with a
\* string: they never reject, and when creating the chat or sending the message
\* fails they resolve with the fixed apology text.
C20_ChatAlwaysResolvesWithString ==
    (InChatCall /\ pc \in {"returned", "thrown"}) =>
        /\ pc = "returned"
        /\ "text" \in DOMAIN result
        /\ ChatFailed => result = ApologyText(call.fn)

----------------------------------------------------------------------------
(* Properties of the requests *)

\* C21: for a chatHistory of n > 0 messages the chat functions pass exactly the first
\* n-1 messages, in their order and with their roles, as the chat's history and,
\* when the message is sent, send the text of the last message; for an empty
\* chatHistory they return the fixed "no message" text without creating a chat or
\* sending a request; the caller's array keeps its length and contents.
C21_LastMessageIsPrompt ==
    InChatCall =>
        LET h == call.chatHistory
            n == Len(call.chatHistory)
        IN  /\ call.callerArray = h
            /\ n = 0 =>
                 /\ pc = "returned" /\ sent = 0 /\ locals.created = FALSE
                 /\ result = NoMessageText(call.svc, call.fn)
            /\ n > 0 =>
                 /\ Len(locals.history) = n - 1
                 /\ \A i \in 1 .. n - 1 :
                      /\ locals.history[i].role = h[i].role
                      /\ locals.history[i].parts = <<[text |-> h[i].text]>>
                 /\ locals.created <=> sent = 1
                 /\ sent = 1 => locals.message = h[n].text

\* A history of three messages: two passed as history, the third sent.
C21_Witness ==
    /\ InChatCall
    /\ Len(call.chatHistory) = 3
    /\ call.chatHistory[1].role = "user" /\ call.chatHistory[2].role = "model"
    /\ call.chatHistory[3].text = "And in two?"
    /\ sent = 1
    /\ Len(locals.history) = 2
    /\ locals.message = "And in two?"

\* The image string a report or plan call was given, null or undefined if none.
ImageGiven ==
    IF InReportCall THEN Prop(call.quizData, "bodyImage") ELSE call.reportImage

IsDataUrl(image) ==
    /\ image \notin {NULL, UNDEFINED}
    /\ Len(image.text) = 4
    /\ image.text[1] = "data:" /\ image.text[3] = ";base64,"
    /\ image.text[2] # "" /\ image.text[4] # ""

\* C22: the request of generateAssessmentReport (and of generateWorkoutPlan) has the
\* text prompt as its first part and at most two parts; it has an image part exactly
\* when the image string is present and has the form data:<mime>;base64,<data>, the
\* part carrying that mime type and data; a malformed image string is dropped and
\* the request is sent all the same.
C22_RequestParts ==
    (InReportCall \/ InPlanCall) =>
        LET parts == locals.requestParts IN
        /\ Len(parts) \in {1, 2}
        /\ DOMAIN parts[1] = {"text"}
        /\ Len(parts) = 2 <=> IsDataUrl(ImageGiven)
        /\ Len(parts) = 2 =>
             parts[2] = [inlineData |-> [mimeType |-> ImageGiven.text[2],
                                         data |-> ImageGiven.text[4]]]
        /\ sent = 1

\* A report asked for with a bare base64 string as its image: one part, request sent.
C22_Witness ==
    /\ InReportCall
    /\ "bodyImage" \in DOMAIN call.quizData
    /\ call.quizData.bodyImage = Text(<<"/9j/4AAQ">>)
    /\ Len(locals.requestParts) = 1
    /\ sent = 1

----------------------------------------------------------------------------
(* Properties of the image functions *)

ImageSettled == InImageCall /\ pc \in {"returned", "thrown"}

InlineIndexes(parts) == {i \in DOMAIN parts : "inlineData" \in DOMAIN parts[i]}

\* C23: editUserImage fails with "Invalid image data", no request sent, when its
\* input is no data URL; otherwise it, like generateMotivationImage, returns the data
\* URL built from the first response part with inline data, and fails with "No image
\* generated." when the response has no candidates or no such part; what it returns
\* is never undefined or the empty string.
C23_ImageResults ==
    InImageCall =>
        /\ (call.fn = "editUserImage" /\ ~IsDataUrl(Text(call.base64Image))) =>
             pc = "thrown" /\ result = InvalidImageData /\ sent = 0
        /\ (ImageSettled /\ response.kind = "resolved") =>
             LET parts == PartsOf(response.response)
                 idx   == InlineIndexes(PartsOf(response.response))
             IN  IF idx = {}
                 THEN pc = "thrown" /\ result = NoImageGenerated
                 ELSE LET first == CHOOSE i \in idx : \A j \in idx : i <= j
                      IN  /\ pc = "returned"
                          /\ result.text[1] = "data:" /\ result.text[3] = ";base64,"
                          /\ "data" \in DOMAIN parts[first].inlineData =>
                                 result.text[4] = parts[first].inlineData.data
                          /\ "mimeType" \in DOMAIN parts[first].inlineData =>
                                 result.text[2] = parts[first].inlineData.mimeType
        /\ pc = "returned" =>
             /\ result \notin {UNDEFINED, NULL}
             /\ result.text # << >>

\* editUserImage got a text part and then an image part: the image is returned.
C23_Witness ==
    /\ call.fn = "editUserImage"
    /\ pc = "returned"
    /\ Len(PartsOf(response.response)) = 2
    /\ "text" \in DOMAIN PartsOf(response.response)[1]
    /\ result = Text(DataUrl("image/png", "AAAA"))

----------------------------------------------------------------------------
(* Properties of AIStudioPage *)

SomeSettled == \E i \in DOMAIN studio.handlers : studio.handlers[i].promise # Pending

\* C24: loading is true only while a handler is at its await, and once the service
\* call of a handler has settled, resolved or rejected, loading goes back to false.
C24_LoadingGoesBack ==
    /\ [](studio.loading => studio.handlers # << >>)
    /\ (SomeSettled ~> ~studio.loading)

\* A failed call has been taken by the catch block and loading is false again.
C24_Witness ==
    /\ studio.event = "alert"
    /\ studio.handlers = << >>
    /\ ~studio.loading

RequestsInFlight ==
    Cardinality({i \in DOMAIN studio.handlers : studio.handlers[i].promise = Pending})

\* C25: at most one handler is at its await, so at most one image request is in
\* flight; while one is, loading is true and both the Magic Edit and the Generate
\* button are disabled, whichever tab is shown.
C25_OneRequestInFlight ==
    /\ Len(studio.handlers) <= 1
    /\ RequestsInFlight <= 1
    /\ studio.handlers # << >> => studio.loading
    /\ studio.loading => EditDisabled(studio) /\ GenerateDisabled(studio)

\* An edit is in flight, the user is on the generate tab with a description typed.
C25_Witness ==
    /\ Len(studio.handlers) = 1
    /\ studio.handlers[1].kind = "edit" /\ studio.handlers[1].promise = Pending
    /\ studio.activeTab = "generate"
    /\ studio.genPrompt # ""

\* C26: handleEdit changes nothing and sends nothing when sourceImage or editPrompt
\* is empty; when it starts it sets editedResult to null, so after a failed edit
\* editedResult is null; handleEdit never changes generatedResult and
\* handleGenerate never changes editedResult.
C26_StudioFrame ==
    [][ /\ (NoSource(studio') \/ studio'.editPrompt = "") => StartEdit(studio') = studio'
        /\ studio'.event = "handleEdit" =>
             /\ studio'.editedResult = NULL
             /\ studio'.generatedResult = studio.generatedResult
        /\ studio'.event = "handleGenerate" =>
             studio'.editedResult = studio.editedResult
        /\ Len(studio'.handlers) < Len(studio.handlers) =>
             LET h == studio.handlers[1] IN
             /\ h.kind = "edit" =>
                  /\ studio'.generatedResult = studio.generatedResult
                  /\ h.promise.kind = "rejected" => studio'.editedResult = NULL
             /\ h.kind = "generate" => studio'.editedResult = studio.editedResult
      ]_vars

\* An edit has just failed with a generated poster on the page: the poster stays,
\* no edited image is shown.
C26_Witness ==
    /\ studio.event = "alert"
    /\ studio.editedResult = NULL
    /\ studio.generatedResult # NULL
    /\ studio.sourceImage = Text(<<"data:">>)

----------------------------------------------------------------------------
(* Properties of handleQuizComplete's effects *)

IndexOf(seq, x) == CHOOSE i \in DOMAIN seq : seq[i] = x

\* C27: in every run of handleQuizComplete the quiz data is stored before the
\* navigation, the route is /report whether the fetch of logToSheet is pending, has
\* resolved or has failed, and the promise of logToSheet is never rejected.
C27_NavigatesWithoutWaiting ==
    page # NoPage =>
        /\ page.route = "/report"
        /\ Includes(page.effects, "setQuizData") /\ Includes(page.effects, "navigate")
        /\ IndexOf(page.effects, "setQuizData") < IndexOf(page.effects, "navigate")
        /\ page.log.promise # "rejected"
        /\ page.log.fetch = "rejected" => page.log.promise = "fulfilled"

\* The page is at /report while the fetch is still pending.
C27_Witness ==
    /\ page # NoPage
    /\ page.route = "/report"
    /\ page.log.fetch = "pending"
    /\ page.log.promise = "pending"

----------------------------------------------------------------------------
(* Properties of TransformationRoadmap *)

\* C28: TransformationRoadmap shows weeks_to_goal when is_timeline_realistic is true
\* and adjusted_timeline_weeks when it is false, shows the "Timeline Adjusted" warning
\* exactly when it is false, and for every report it can receive the number of weeks
\* it shows is a defined number, whenever the roadmap renders at all.
C28_RoadmapWeeksDefined ==
    (roadmap # NoRoadmap /\ ~roadmap.crashed) =>
        /\ roadmap.warning <=> ~roadmap.data.timeline.is_timeline_realistic
        /\ roadmap.data.timeline.is_timeline_realistic =>
             roadmap.weeks = NumProp(roadmap.data.timeline, "weeks_to_goal")
        /\ ~roadmap.data.timeline.is_timeline_realistic =>
             roadmap.weeks = NumProp(roadmap.data.timeline, "adjusted_timeline_weeks")
        /\ "number" \in DOMAIN roadmap.weeks

====
